---- MODULE Spec2Model ----
(***************************************************************************)
(* Model of the 5G core simulation backend (src/main.py, src/schemas.py).  *)
(*                                                                         *)
(* The state is the document store (one sequence of documents per          *)
(* collection, in insertion order) plus, for every request thread, the     *)
(* handler it is running, its position in that handler and the handler's   *)
(* local variables.  FastAPI runs the synchronous handlers on a thread     *)
(* pool, so handlers of different requests interleave; every step of the   *)
(* model is exactly one store operation (find_one, update_one, insert)     *)
(* together with the local computation that follows it.                    *)
(***************************************************************************)
EXTENDS Integers, Sequences, FiniteSets, TLC

\* ------------------------------------------------------------------------
\* Bounds of the model
\* ------------------------------------------------------------------------
\* number of requests served in one behaviour
MaxRequests == 2
\* number of whole seconds the wall clock may advance
MaxClock == 1

\* request threads of the pool (two are enough for every race of two calls)
Workers == {"w1", "w2"}

\* ------------------------------------------------------------------------
\* Input domains
\* ------------------------------------------------------------------------
None == "None"
SUPI == {"imsi-1", "imsi-2"}
PLMN == {"001-01", "999-99"}
\* payload.get("supi") / payload.get("plmn") may be missing or empty: ""
Missing == ""
NFID == {"upf-a", "nf-b"}
NFTYPE == {"UPF", "AMF"}
POLICYID == {"pol-1", "pol-2"}
\* the qos mappings a PolicyRule may carry; DefaultQos is schemas.py's default
DefaultQos == [qi |-> 9, mbr_ul |-> "10Mbps", mbr_dl |-> "10Mbps"]
GoldQos == [qi |-> 1, mbr_ul |-> "100Mbps", mbr_dl |-> "100Mbps"]
QOS == {DefaultQos, GoldQos}
\* the hard-coded fallback of the SMF, {"5qi": 9}
HardDefaultQos == [qi |-> 9]

\* Slice documents are reference data: no handler writes the slice collection.
Slice1 == [slice_id |-> "1", sst |-> "eMBB", plmns |-> {"001-01"}]
Slice2 == [slice_id |-> "2", sst |-> "URLLC", plmns |-> {"002-02"}]
SliceConfigs == {<<>>, <<Slice1>>, <<Slice2, Slice1>>}

VARIABLES
    ue,          \* db["ue"]
    slice,       \* db["slice"]
    policyrule,  \* db["policyrule"]
    pdusession,  \* db["pdusession"]
    nfservice,   \* db["nfservice"]
    upfstate,    \* db["upfstate"]
    logentry,    \* db["logentry"]
    clock,       \* datetime.now(), in whole seconds
    pc,          \* pc[w]: position of thread w in its handler, "idle" if none
    arg,         \* arg[w]: the request thread w is serving, or served last
    loc,         \* loc[w]: the handler's local variables
    ret,         \* ret[w]: the response of the last request thread w served
    op,          \* op[w]: the handler thread w is running, or ran last
    nreq         \* requests accepted so far

store == <<ue, slice, policyrule, pdusession, nfservice, upfstate, logentry>>
vars == <<ue, slice, policyrule, pdusession, nfservice, upfstate, logentry,
          clock, pc, arg, loc, ret, op, nreq>>

Nil == [nil |-> TRUE]

\* ------------------------------------------------------------------------
\* The document store
\* ------------------------------------------------------------------------
\* a filter {"field": value, ...} matches a document whose fields have these
\* values; the empty filter {} is <<>> and matches every document
Matches(d, filter) == \A k \in DOMAIN filter : d[k] = filter[k]

\* the first of a set of positions, 0 if there is none
First(S) == IF S = {} THEN 0 ELSE CHOOSE i \in S : \A j \in S : i <= j

\* collection.find_one(filter): position of the first matching document, 0 if none
FindOne(coll, filter) == First({i \in 1..Len(coll) : Matches(coll[i], filter)})

\* collection.find_one({field: value}) on an array field: the array contains value
FindOneContaining(coll, field, value) ==
    First({i \in 1..Len(coll) : value \in coll[i][field]})

\* {"$set": fields} applied to a document
Set(d, fields) ==
    [k \in DOMAIN d \cup DOMAIN fields |-> IF k \in DOMAIN fields THEN fields[k] ELSE d[k]]

\* {"$inc": {"ul_bytes": ul, "dl_bytes": dl}} applied to a document
Inc(d, ul, dl) == [d EXCEPT !.ul_bytes = @ + ul, !.dl_bytes = @ + dl]

\* collection.update_one(filter, {"$set": fields}): rewrites the first match
UpdateOneSet(coll, filter, fields) ==
    LET i == FindOne(coll, filter)
    IN  IF i = 0 THEN coll ELSE [coll EXCEPT ![i] = Set(coll[i], fields)]

\* collection.update_one(filter, {"$inc": ...}): rewrites the first match
UpdateOneInc(coll, filter, ul, dl) ==
    LET i == FindOne(coll, filter)
    IN  IF i = 0 THEN coll ELSE [coll EXCEPT ![i] = Inc(coll[i], ul, dl)]

\* database.create_document(collection, model): inserts one new document
create_document(coll, doc) == Append(coll, doc)

\* LogEntry(nf=..., level="INFO", message=..., context=...)
LogEntry(nf, message, context) ==
    [nf |-> nf, level |-> "INFO", message |-> message, context |-> context]

\* raise HTTPException(code, detail)
HTTPException(code, detail) == [code |-> code, detail |-> detail]
\* a normal response
Response(body) == [code |-> 200, body |-> body]

\* ------------------------------------------------------------------------
\* Thread bookkeeping
\* ------------------------------------------------------------------------
\* an idle thread w takes a request for `handler` and is about to run its first step
Request(w, handler, label, request) ==
    /\ pc[w] = "idle"
    /\ nreq < MaxRequests
    /\ nreq' = nreq + 1
    /\ op' = [op EXCEPT ![w] = handler]
    /\ pc' = [pc EXCEPT ![w] = label]
    /\ arg' = [arg EXCEPT ![w] = request]
    /\ loc' = [loc EXCEPT ![w] = Nil]
    /\ ret' = [ret EXCEPT ![w] = Nil]
    /\ UNCHANGED <<store, clock>>

\* thread w moves on inside its handler
Goto(w, label, request, locals) ==
    /\ pc' = [pc EXCEPT ![w] = label]
    /\ arg' = [arg EXCEPT ![w] = request]
    /\ loc' = [loc EXCEPT ![w] = locals]
    /\ UNCHANGED <<ret, op>>

\* thread w answers (a return, or a raised HTTPException) and becomes idle;
\* arg[w] stays, so that ret[w] is read as the answer to arg[w]
Reply(w, response) ==
    /\ pc' = [pc EXCEPT ![w] = "idle"]
    /\ loc' = [loc EXCEPT ![w] = Nil]
    /\ ret' = [ret EXCEPT ![w] = response]
    /\ UNCHANGED <<arg, op>>

\* ------------------------------------------------------------------------
\* NRF
\* ------------------------------------------------------------------------
NFService == [nf_type : NFTYPE, nf_id : NFID, status : {"HEALTHY"},
              api_base : {"http://nf"}, capabilities : {<<>>}]

\* main.py:83  POST /nrf/register: a thread takes the request
nrf_register(w) ==
    \E service \in NFService :
        Request(w, "nrf_register", "nrf_find", service)

\* main.py:84  existing = db["nfservice"].find_one({"nf_id": service.nf_id})
nrf_register_find(w) ==
    /\ pc[w] = "nrf_find"
    /\ LET existing == FindOne(nfservice, [nf_id |-> arg[w].nf_id])
       IN  Goto(w, "nrf_write", arg[w], [existing |-> existing # 0])
    /\ UNCHANGED <<store, clock, nreq>>

\* the write without the update branch
NrfStore_AlwaysCreate(coll, service, existing) == create_document(coll, service)

\* main.py:85-91  update_one / create_document, then return {"status": msg}
NrfStore(coll, service, existing) ==
    IF existing
    THEN UpdateOneSet(coll, [nf_id |-> service.nf_id], service)
    ELSE create_document(coll, service)

nrf_register_write(w) ==
    /\ pc[w] = "nrf_write"
    /\ nfservice' = NrfStore(nfservice, arg[w], loc[w].existing)
    /\ Reply(w, Response([status |-> IF loc[w].existing THEN "updated" ELSE "registered"]))
    /\ UNCHANGED <<ue, slice, policyrule, pdusession, upfstate, logentry, clock, nreq>>

\* ------------------------------------------------------------------------
\* NSSF
\* ------------------------------------------------------------------------
\* the lookup without the PLMN filter: always the first slice
SliceFor_FirstOnly(plmn) == FindOne(slice, <<>>)

\* main.py:110  db["slice"].find_one({"plmns": plmn}) or db["slice"].find_one({})
\* (0 when the collection is empty)
SliceFor(plmn) ==
    LET m == FindOneContaining(slice, "plmns", plmn)
    IN  IF m # 0 THEN m ELSE FindOne(slice, <<>>)

NoSliceAvailable == HTTPException(404, "No slices configured")

\* main.py:106  POST /nssf/select-slice: a thread takes the request
select_slice(w) ==
    \E payload \in [supi : SUPI, plmn : PLMN] :
        Request(w, "select_slice", "ss_find", payload)

\* main.py:107-113  the lookup; raises when there is no slice at all
select_slice_find(w) ==
    /\ pc[w] = "ss_find"
    /\ LET sl == SliceFor(arg[w].plmn)
       IN  IF sl = 0
           THEN Reply(w, NoSliceAvailable)
           ELSE Goto(w, "ss_log", arg[w], [slice_id |-> slice[sl].slice_id])
    /\ UNCHANGED <<store, clock, nreq>>

SliceSelectedLog(supi, slice_id) ==
    LogEntry("NSSF", "Slice selected", [supi |-> supi, slice |-> slice_id])

\* main.py:115-116  record the selection, return the slice
select_slice_log(w) ==
    /\ pc[w] = "ss_log"
    /\ logentry' = create_document(logentry, SliceSelectedLog(arg[w].supi, loc[w].slice_id))
    /\ Reply(w, Response([slice_id |-> loc[w].slice_id]))
    /\ UNCHANGED <<ue, slice, policyrule, pdusession, nfservice, upfstate, clock, nreq>>

\* ------------------------------------------------------------------------
\* UDM/AUSF
\* ------------------------------------------------------------------------
NotFoundUE == HTTPException(404, "UE not found")

\* main.py:131  token = f"auth-{supi}"
Token(supi) == "auth-" \o supi

AuthLog(supi) == LogEntry("UDM/AUSF", "UE authenticated", [supi |-> supi])

\* main.py:126  POST /udm/authenticate: a thread takes the request
authenticate(w) ==
    \E payload \in [supi : SUPI] :
        Request(w, "authenticate", "au_find", payload)

\* main.py:127-130
authenticate_find(w) ==
    /\ pc[w] = "au_find"
    /\ IF FindOne(ue, [supi |-> arg[w].supi]) = 0
       THEN Reply(w, NotFoundUE)
       ELSE Goto(w, "au_log", arg[w], Nil)
    /\ UNCHANGED <<store, clock, nreq>>

\* main.py:131-133
authenticate_log(w) ==
    /\ pc[w] = "au_log"
    /\ logentry' = create_document(logentry, AuthLog(arg[w].supi))
    /\ Reply(w, Response([result |-> "OK", token |-> Token(arg[w].supi)]))
    /\ UNCHANGED <<ue, slice, policyrule, pdusession, nfservice, upfstate, clock, nreq>>

\* ------------------------------------------------------------------------
\* PCF
\* ------------------------------------------------------------------------
PolicyRule == [policy_id : POLICYID, desc : {None}, qos : QOS, charging : {<<>>}]

\* main.py:143  POST /pcf/policy: a thread takes the request
set_policy(w) ==
    \E rule \in PolicyRule :
        Request(w, "set_policy", "pol_find", rule)

\* main.py:144
set_policy_find(w) ==
    /\ pc[w] = "pol_find"
    /\ LET existing == FindOne(policyrule, [policy_id |-> arg[w].policy_id])
       IN  Goto(w, "pol_write", arg[w], [existing |-> existing # 0])
    /\ UNCHANGED <<store, clock, nreq>>

\* main.py:145-150
PolicyStore(coll, rule, existing) ==
    IF existing
    THEN UpdateOneSet(coll, [policy_id |-> rule.policy_id], rule)
    ELSE create_document(coll, rule)

\* the write of a store that hands out references: sessions share the rule's qos
set_policy_write_Aliased(w) ==
    /\ pc[w] = "pol_write"
    /\ policyrule' = PolicyStore(policyrule, arg[w], loc[w].existing)
    /\ pdusession' = [i \in 1..Len(pdusession) |->
                         [pdusession[i] EXCEPT !.qos_rules = arg[w].qos]]
    /\ Goto(w, "pol_log", arg[w],
            [action |-> IF loc[w].existing THEN "updated" ELSE "created"])
    /\ UNCHANGED <<ue, slice, nfservice, upfstate, logentry, clock, nreq>>

set_policy_write(w) ==
    /\ pc[w] = "pol_write"
    /\ policyrule' = PolicyStore(policyrule, arg[w], loc[w].existing)
    /\ Goto(w, "pol_log", arg[w],
            [action |-> IF loc[w].existing THEN "updated" ELSE "created"])
    /\ UNCHANGED <<ue, slice, pdusession, nfservice, upfstate, logentry, clock, nreq>>

\* main.py:151-152
set_policy_log(w) ==
    /\ pc[w] = "pol_log"
    /\ logentry' = create_document(logentry,
          LogEntry("PCF", "Policy " \o loc[w].action, [policy_id |-> arg[w].policy_id]))
    /\ Reply(w, Response([status |-> loc[w].action]))
    /\ UNCHANGED <<ue, slice, policyrule, pdusession, nfservice, upfstate, clock, nreq>>

\* ------------------------------------------------------------------------
\* AMF
\* ------------------------------------------------------------------------
\* schemas.py:13-20; Optional[datetime] is <<>> (None) or <<t>>
UE(supi, plmn, registered) ==
    [supi |-> supi, guti |-> None, plmn |-> plmn, slices |-> <<>>,
     registered |-> registered, amf_id |-> None, last_seen |-> <<>>]

\* the bodies POST /amf/register-ue is called with
UEBody == [supi : SUPI, guti : {None}, plmn : {"001-01"}, slices : {<<>>},
           registered : {FALSE}, amf_id : {None}, last_seen : {<<>>}]

\* main.py:170  POST /amf/register-ue: a thread takes the request
amf_register_ue(w) ==
    \E body \in UEBody :
        Request(w, "amf_register_ue", "ru_find", body)

\* main.py:171
amf_register_ue_find(w) ==
    /\ pc[w] = "ru_find"
    /\ LET existing == FindOne(ue, [supi |-> arg[w].supi])
       IN  Goto(w, "ru_write", arg[w], [existing |-> existing # 0])
    /\ UNCHANGED <<store, clock, nreq>>

\* registerUE storing the body as it came, registered flag included
RegisteredUE_AsSent(body, now) == [body EXCEPT !.last_seen = <<now>>]

\* main.py:173 and 176-177: the document written, in both branches
RegisteredUE(body, now) == [body EXCEPT !.registered = TRUE, !.last_seen = <<now>>]

\* the write whose update branch stores the body without forcing registered
UEStore_UpdateAsSent(coll, body, existing, now) ==
    IF existing
    THEN UpdateOneSet(coll, [supi |-> body.supi], [body EXCEPT !.last_seen = <<now>>])
    ELSE create_document(coll, RegisteredUE(body, now))

\* main.py:172-179
UEStore(coll, body, existing, now) ==
    IF existing
    THEN UpdateOneSet(coll, [supi |-> body.supi], RegisteredUE(body, now))
    ELSE create_document(coll, RegisteredUE(body, now))

amf_register_ue_write(w) ==
    /\ pc[w] = "ru_write"
    /\ ue' = UEStore(ue, arg[w], loc[w].existing, clock)
    /\ Goto(w, "ru_log", arg[w], [msg |-> IF loc[w].existing THEN "updated" ELSE "registered"])
    /\ UNCHANGED <<slice, policyrule, pdusession, nfservice, upfstate, logentry, clock, nreq>>

\* main.py:180-181
amf_register_ue_log(w) ==
    /\ pc[w] = "ru_log"
    /\ logentry' = create_document(logentry,
          LogEntry("AMF", "UE " \o loc[w].msg, [supi |-> arg[w].supi]))
    /\ Reply(w, Response([status |-> loc[w].msg]))
    /\ UNCHANGED <<ue, slice, policyrule, pdusession, nfservice, upfstate, clock, nreq>>

ValidationError == HTTPException(400, "supi and plmn required")

\* main.py:185  POST /amf/ue-registration-flow: a thread takes the request
ue_registration_flow(w) ==
    \E payload \in [supi : SUPI \cup {Missing}, plmn : PLMN \cup {Missing}] :
        Request(w, "ue_registration_flow", "rf_find", payload)

\* main.py:189-196  validation, then ue = db["ue"].find_one({"supi": supi})
ue_registration_flow_find(w) ==
    /\ pc[w] = "rf_find"
    /\ IF arg[w].supi = Missing \/ arg[w].plmn = Missing
       THEN Reply(w, ValidationError)
       ELSE IF FindOne(ue, [supi |-> arg[w].supi]) = 0
            THEN Goto(w, "rf_create", arg[w], Nil)
            ELSE Goto(w, "rf_auth", arg[w], Nil)
    /\ UNCHANGED <<store, clock, nreq>>

\* main.py:197-198  create the UE on first contact
ue_registration_flow_create(w) ==
    /\ pc[w] = "rf_create"
    /\ ue' = create_document(ue, UE(arg[w].supi, arg[w].plmn, FALSE))
    /\ Goto(w, "rf_auth", arg[w], Nil)
    /\ UNCHANGED <<slice, policyrule, pdusession, nfservice, upfstate, logentry, clock, nreq>>

\* main.py:201 -> 127-130  authenticate(): the lookup
ue_registration_flow_auth(w) ==
    /\ pc[w] = "rf_auth"
    /\ IF FindOne(ue, [supi |-> arg[w].supi]) = 0
       THEN Reply(w, NotFoundUE)
       ELSE Goto(w, "rf_auth_log", arg[w], Nil)
    /\ UNCHANGED <<store, clock, nreq>>

\* the authentication step of a flow that marks the UE registered at once,
\* before any slice is selected
ue_registration_flow_auth_log_MarksRegistered(w) ==
    /\ pc[w] = "rf_auth_log"
    /\ logentry' = create_document(logentry, AuthLog(arg[w].supi))
    /\ ue' = UpdateOneSet(ue, [supi |-> arg[w].supi], [registered |-> TRUE])
    /\ Goto(w, "rf_select", arg[w], [auth |-> [result |-> "OK", token |-> Token(arg[w].supi)]])
    /\ UNCHANGED <<slice, policyrule, pdusession, nfservice, upfstate, clock, nreq>>

\* main.py:201-203 -> 131-133  authenticate(): token and log; the result is
\* always "OK", so the 401 of line 203 is never raised
ue_registration_flow_auth_log(w) ==
    /\ pc[w] = "rf_auth_log"
    /\ logentry' = create_document(logentry, AuthLog(arg[w].supi))
    /\ Goto(w, "rf_select", arg[w], [auth |-> [result |-> "OK", token |-> Token(arg[w].supi)]])
    /\ UNCHANGED <<ue, slice, policyrule, pdusession, nfservice, upfstate, clock, nreq>>

\* the lookup without the "if not sl: raise": the flow goes on with no slice
ue_registration_flow_select_NoRaise(w) ==
    /\ pc[w] = "rf_select"
    /\ LET sl == SliceFor(arg[w].plmn)
       IN  Goto(w, "rf_select_log", arg[w],
                [sl |-> [slice_id |-> IF sl = 0 THEN None ELSE slice[sl].slice_id]])
    /\ UNCHANGED <<store, clock, nreq>>

\* main.py:206 -> 107-113  select_slice(): the lookup
ue_registration_flow_select(w) ==
    /\ pc[w] = "rf_select"
    /\ LET sl == SliceFor(arg[w].plmn)
       IN  IF sl = 0
           THEN Reply(w, NoSliceAvailable)
           ELSE Goto(w, "rf_select_log", arg[w], [sl |-> [slice_id |-> slice[sl].slice_id]])
    /\ UNCHANGED <<store, clock, nreq>>

\* main.py:206 -> 115-116  select_slice(): the log record
ue_registration_flow_select_log(w) ==
    /\ pc[w] = "rf_select_log"
    /\ logentry' = create_document(logentry, SliceSelectedLog(arg[w].supi, loc[w].sl.slice_id))
    /\ Goto(w, "rf_update", arg[w], loc[w])
    /\ UNCHANGED <<ue, slice, policyrule, pdusession, nfservice, upfstate, clock, nreq>>

\* the registration that leaves slices and amf_id as they were
FlowRegistered_FlagOnly(slice_id, now) == [registered |-> TRUE, last_seen |-> <<now>>]

\* main.py:209  the fields the registration sets
FlowRegistered(slice_id, now) ==
    [registered |-> TRUE, last_seen |-> <<now>>, slices |-> <<slice_id>>, amf_id |-> "amf-1"]

ue_registration_flow_update(w) ==
    /\ pc[w] = "rf_update"
    /\ ue' = UpdateOneSet(ue, [supi |-> arg[w].supi],
                          FlowRegistered(loc[w].sl.slice_id, clock))
    /\ Goto(w, "rf_log", arg[w], loc[w])
    /\ UNCHANGED <<slice, policyrule, pdusession, nfservice, upfstate, logentry, clock, nreq>>

\* main.py:210-211
ue_registration_flow_log(w) ==
    /\ pc[w] = "rf_log"
    /\ logentry' = create_document(logentry,
          LogEntry("AMF", "UE registration flow complete",
                   [supi |-> arg[w].supi, slice |-> loc[w].sl.slice_id]))
    /\ Reply(w, Response([result |-> "OK", slice |-> loc[w].sl.slice_id]))
    /\ UNCHANGED <<ue, slice, policyrule, pdusession, nfservice, upfstate, clock, nreq>>

\* ------------------------------------------------------------------------
\* SMF
\* ------------------------------------------------------------------------
\* main.py:254  f"sess-{supi}-{int(datetime.now().timestamp())}"
SessionId(supi, now) == "sess-" \o supi \o "-" \o ToString(now)

\* schemas.py:38-48
PDUSession(session_id, supi, dnn, s_nssai, smf_id, upf_id, qos_rules) ==
    [session_id |-> session_id, supi |-> supi, dnn |-> dnn, s_nssai |-> s_nssai,
     smf_id |-> smf_id, upf_id |-> upf_id, state |-> "ACTIVE",
     qos_rules |-> qos_rules, ul_bytes |-> 0, dl_bytes |-> 0]

\* the bodies POST /smf/pdu-session is called with; qos_rules is left at the
\* schema's default, the empty mapping
SessionBody ==
    {PDUSession(sid, supi, "internet", "1", None, upf, <<>>) :
        sid \in {"s-x", "s-y"}, supi \in SUPI, upf \in {None, "upf-9"}}

\* main.py:223-224 and 246-247  qos of the first PolicyRule, else {"5qi": 9}
PickQos ==
    LET p == FindOne(policyrule, <<>>)
    IN  IF p # 0 THEN policyrule[p].qos ELSE HardDefaultQos

\* main.py:221  POST /smf/pdu-session: a thread takes the request
create_pdu_session(w) ==
    \E session \in SessionBody :
        Request(w, "create_pdu_session", "cs_policy", session)

\* main.py:223-224
create_pdu_session_policy(w) ==
    /\ pc[w] = "cs_policy"
    /\ Goto(w, "cs_create", [arg[w] EXCEPT !.qos_rules = PickQos], Nil)
    /\ UNCHANGED <<store, clock, nreq>>

\* main.py:225
create_pdu_session_create(w) ==
    /\ pc[w] = "cs_create"
    /\ pdusession' = create_document(pdusession, arg[w])
    /\ Goto(w, "cs_log", arg[w], Nil)
    /\ UNCHANGED <<ue, slice, policyrule, nfservice, upfstate, logentry, clock, nreq>>

\* main.py:226-227
create_pdu_session_log(w) ==
    /\ pc[w] = "cs_log"
    /\ logentry' = create_document(logentry,
          LogEntry("SMF", "PDU session created",
                   [session_id |-> arg[w].session_id, supi |-> arg[w].supi]))
    /\ Reply(w, Response([status |-> "created"]))
    /\ UNCHANGED <<ue, slice, policyrule, pdusession, nfservice, upfstate, clock, nreq>>

SupiRequired == HTTPException(400, "supi required")
UENotRegistered == HTTPException(400, "UE not registered")

\* the lookup without the "registered": True part of the filter
RegisteredUEOf_AnyRecord(supi) == FindOne(ue, [supi |-> supi])

\* main.py:241  db["ue"].find_one({"supi": supi, "registered": True})
RegisteredUEOf(supi) == FindOne(ue, [supi |-> supi, registered |-> TRUE])

\* main.py:231  POST /smf/establish-session: a thread takes the request
establish_session(w) ==
    \E payload \in [supi : SUPI \cup {Missing}, dnn : {"internet"}, slice : {None, "9"}] :
        Request(w, "establish_session", "es_ue", payload)

\* main.py:235-243
establish_session_ue(w) ==
    /\ pc[w] = "es_ue"
    /\ IF arg[w].supi = Missing
       THEN Reply(w, SupiRequired)
       ELSE IF RegisteredUEOf(arg[w].supi) = 0
            THEN Reply(w, UENotRegistered)
            ELSE Goto(w, "es_policy", arg[w], [ue |-> ue[RegisteredUEOf(arg[w].supi)]])
    /\ UNCHANGED <<store, clock, nreq>>

\* the lookup of an SMF that stores the default it fell back to as a PolicyRule
establish_session_policy_PersistsDefault(w) ==
    /\ pc[w] = "es_policy"
    /\ policyrule' = IF policyrule = <<>>
                     THEN <<[policy_id |-> "default", desc |-> None,
                             qos |-> HardDefaultQos, charging |-> <<>>]>>
                     ELSE policyrule
    /\ Goto(w, "es_upf", arg[w], [ue |-> loc[w].ue, qos |-> PickQos])
    /\ UNCHANGED <<ue, slice, pdusession, nfservice, upfstate, logentry, clock, nreq>>

\* main.py:246-247
establish_session_policy(w) ==
    /\ pc[w] = "es_policy"
    /\ Goto(w, "es_upf", arg[w], [ue |-> loc[w].ue, qos |-> PickQos])
    /\ UNCHANGED <<store, clock, nreq>>

\* main.py:250-251  first NFService of type UPF, else "upf-1"
PickUpf ==
    LET u == FindOne(nfservice, [nf_type |-> "UPF"])
    IN  IF u # 0 THEN nfservice[u].nf_id ELSE "upf-1"

establish_session_upf(w) ==
    /\ pc[w] = "es_upf"
    /\ Goto(w, "es_create", arg[w], [ue |-> loc[w].ue, qos |-> loc[w].qos, upf_id |-> PickUpf])
    /\ UNCHANGED <<store, clock, nreq>>

\* the choice that ignores the slices granted to the UE
SNssai_NoGranted(requested, u) == IF requested # None THEN requested ELSE "default"

\* main.py:254  s_nssai or (ue.get("slices") or ["default"])[0]
SNssai(requested, u) ==
    IF requested # None THEN requested
    ELSE IF u.slices # <<>> THEN u.slices[1] ELSE "default"

\* main.py:254  the session document
NewSession(payload, u, upf_id, qos, now) ==
    PDUSession(SessionId(payload.supi, now), payload.supi, payload.dnn,
               SNssai(payload.slice, u), "smf-1", upf_id, qos)

\* main.py:254-255
establish_session_create(w) ==
    /\ pc[w] = "es_create"
    /\ LET sess == NewSession(arg[w], loc[w].ue, loc[w].upf_id, loc[w].qos, clock)
       IN  /\ pdusession' = create_document(pdusession, sess)
           /\ Goto(w, "es_upfstate", arg[w],
                   [sess |-> sess, qos |-> loc[w].qos, upf_id |-> loc[w].upf_id])
    /\ UNCHANGED <<ue, slice, policyrule, nfservice, upfstate, logentry, clock, nreq>>

\* the upsert that writes the zero counters whether or not the record exists
UpsertSetOnInsert_Reset(coll, upf_id) ==
    IF FindOne(coll, [upf_id |-> upf_id]) # 0
    THEN UpdateOneSet(coll, [upf_id |-> upf_id], [ul_bytes |-> 0, dl_bytes |-> 0])
    ELSE create_document(coll, [upf_id |-> upf_id, ul_bytes |-> 0, dl_bytes |-> 0])

\* main.py:258  update_one(..., {"$setOnInsert": ...}, upsert=True)
UpsertSetOnInsert(coll, upf_id) ==
    IF FindOne(coll, [upf_id |-> upf_id]) # 0
    THEN coll
    ELSE create_document(coll, [upf_id |-> upf_id, ul_bytes |-> 0, dl_bytes |-> 0])

establish_session_upfstate(w) ==
    /\ pc[w] = "es_upfstate"
    /\ upfstate' = UpsertSetOnInsert(upfstate, loc[w].upf_id)
    /\ Goto(w, "es_log", arg[w], loc[w])
    /\ UNCHANGED <<ue, slice, policyrule, pdusession, nfservice, logentry, clock, nreq>>

\* main.py:259-260
establish_session_log(w) ==
    /\ pc[w] = "es_log"
    /\ logentry' = create_document(logentry,
          LogEntry("SMF", "Session established", [session_id |-> loc[w].sess.session_id]))
    /\ Reply(w, Response([result |-> "OK", session_id |-> loc[w].sess.session_id,
                          upf |-> loc[w].upf_id, qos |-> loc[w].qos]))
    /\ UNCHANGED <<ue, slice, policyrule, pdusession, nfservice, upfstate, clock, nreq>>

\* ------------------------------------------------------------------------
\* UPF
\* ------------------------------------------------------------------------
NotFoundSession == HTTPException(404, "Session not found")

\* the payloads of POST /upf/simulate-traffic: main.py:277-278 default a missing
\* "ul" to 1000 and a missing "dl" to 2000
TrafficPayload == {[ul |-> 500, dl |-> 700], [ul |-> 1000, dl |-> 2000]}

\* the session ids a caller may name: those stored, and one that is not
KnownSessionIds == {pdusession[i].session_id : i \in 1..Len(pdusession)} \cup {"s-none"}

\* main.py:276-278  POST /upf/simulate-traffic/{session_id}: a thread takes the request
simulate_traffic(w) ==
    \E session_id \in KnownSessionIds, payload \in TrafficPayload :
        Request(w, "simulate_traffic", "st_find", [session_id |-> session_id, ul |-> payload.ul, dl |-> payload.dl])

\* main.py:279-281
simulate_traffic_find(w) ==
    /\ pc[w] = "st_find"
    /\ LET s == FindOne(pdusession, [session_id |-> arg[w].session_id])
       IN  IF s = 0
           THEN Reply(w, NotFoundSession)
           ELSE Goto(w, "st_session", arg[w], [sess |-> pdusession[s]])
    /\ UNCHANGED <<store, clock, nreq>>

\* main.py:282
simulate_traffic_session(w) ==
    /\ pc[w] = "st_session"
    /\ pdusession' = UpdateOneInc(pdusession, [session_id |-> arg[w].session_id],
                                  arg[w].ul, arg[w].dl)
    /\ Goto(w, "st_upf", arg[w], loc[w])
    /\ UNCHANGED <<ue, slice, policyrule, nfservice, upfstate, logentry, clock, nreq>>

\* the upsert with "$set" in place of "$inc"
UpsertInc_Set(coll, upf_id, ul, dl) ==
    IF FindOne(coll, [upf_id |-> upf_id]) # 0
    THEN UpdateOneSet(coll, [upf_id |-> upf_id], [ul_bytes |-> ul, dl_bytes |-> dl])
    ELSE create_document(coll, [upf_id |-> upf_id, ul_bytes |-> ul, dl_bytes |-> dl])

\* main.py:283  update_one(..., {"$inc": ...}, upsert=True)
UpsertInc(coll, upf_id, ul, dl) ==
    IF FindOne(coll, [upf_id |-> upf_id]) # 0
    THEN UpdateOneInc(coll, [upf_id |-> upf_id], ul, dl)
    ELSE create_document(coll, [upf_id |-> upf_id, ul_bytes |-> ul, dl_bytes |-> dl])

\* main.py:283  sess.get("upf_id", "upf-1"): the key is always stored, so the
\* default is never taken and a stored None is used as it is
simulate_traffic_upf(w) ==
    /\ pc[w] = "st_upf"
    /\ upfstate' = UpsertInc(upfstate, loc[w].sess.upf_id, arg[w].ul, arg[w].dl)
    /\ Goto(w, "st_log", arg[w], loc[w])
    /\ UNCHANGED <<ue, slice, policyrule, pdusession, nfservice, logentry, clock, nreq>>

\* main.py:284-285
simulate_traffic_log(w) ==
    /\ pc[w] = "st_log"
    /\ logentry' = create_document(logentry,
          LogEntry("UPF", "Traffic simulated",
                   [session_id |-> arg[w].session_id, ul |-> arg[w].ul, dl |-> arg[w].dl]))
    /\ Reply(w, Response([status |-> "ok"]))
    /\ UNCHANGED <<ue, slice, policyrule, pdusession, nfservice, upfstate, clock, nreq>>

\* ------------------------------------------------------------------------
\* The system
\* ------------------------------------------------------------------------
\* the wall clock passes a whole second
Tick ==
    /\ clock < MaxClock
    /\ clock' = clock + 1
    /\ UNCHANGED <<store, pc, arg, loc, ret, op, nreq>>

\* The store is persistent: a behaviour starts from the empty store or from a
\* store earlier requests have left behind.  Each seed is the store after the
\* named calls have run, one after another, at clock 0, built with the
\* operators of the handlers themselves.
SeedRule == [policy_id |-> "pol-1", desc |-> None, qos |-> GoldQos, charging |-> <<>>]
SeedUE == RegisteredUE(UE("imsi-1", "001-01", FALSE), 0)
SeedSession ==
    NewSession([supi |-> "imsi-1", dnn |-> "internet", slice |-> None],
               SeedUE, "upf-1", GoldQos, 0)

EmptyStore ==
    [ue |-> <<>>, policyrule |-> <<>>, pdusession |-> <<>>, upfstate |-> <<>>,
     logentry |-> <<>>]

\* after registerUE(imsi-1)
StoreWithUE ==
    [EmptyStore EXCEPT
        !.ue = UEStore(<<>>, UE("imsi-1", "001-01", FALSE), FALSE, 0),
        !.logentry = <<LogEntry("AMF", "UE registered", [supi |-> "imsi-1"])>>]

\* ... then setPolicy(pol-1, GoldQos)
StoreWithPolicy ==
    [StoreWithUE EXCEPT
        !.policyrule = PolicyStore(<<>>, SeedRule, FALSE),
        !.logentry = Append(@, LogEntry("PCF", "Policy created", [policy_id |-> "pol-1"]))]

\* ... then establishSession(imsi-1)
StoreWithSession ==
    [StoreWithPolicy EXCEPT
        !.pdusession = <<SeedSession>>,
        !.upfstate = UpsertSetOnInsert(<<>>, "upf-1"),
        !.logentry = Append(@, LogEntry("SMF", "Session established",
                                        [session_id |-> SeedSession.session_id]))]

Seeds == {EmptyStore, StoreWithUE, StoreWithPolicy, StoreWithSession}

Init ==
    /\ slice \in SliceConfigs
    /\ \E seed \in Seeds :
        /\ ue = seed.ue
        /\ policyrule = seed.policyrule
        /\ pdusession = seed.pdusession
        /\ upfstate = seed.upfstate
        /\ logentry = seed.logentry
    /\ nfservice = <<>>
    /\ clock = 0
    /\ pc = [w \in Workers |-> "idle"]
    /\ arg = [w \in Workers |-> Nil]
    /\ loc = [w \in Workers |-> Nil]
    /\ ret = [w \in Workers |-> Nil]
    /\ op = [w \in Workers |-> "none"]
    /\ nreq = 0

\* the handlers of each NF
\* one definition per handler step, so that each is an action of its own
Nrf(w) == nrf_register(w) \/ nrf_register_find(w) \/ nrf_register_write(w)

Nssf(w) == select_slice(w) \/ select_slice_find(w) \/ select_slice_log(w)

Udm(w) == authenticate(w) \/ authenticate_find(w) \/ authenticate_log(w)

Pcf(w) ==
    set_policy(w) \/ set_policy_find(w) \/ set_policy_write(w) \/ set_policy_log(w)

AmfRegisterUe(w) ==
    \/ amf_register_ue(w) \/ amf_register_ue_find(w)
    \/ amf_register_ue_write(w) \/ amf_register_ue_log(w)

AmfFlow(w) ==
    \/ ue_registration_flow(w)
    \/ ue_registration_flow_find(w) \/ ue_registration_flow_create(w)
    \/ ue_registration_flow_auth(w) \/ ue_registration_flow_auth_log(w)
    \/ ue_registration_flow_select(w) \/ ue_registration_flow_select_log(w)
    \/ ue_registration_flow_update(w) \/ ue_registration_flow_log(w)

SmfCreate(w) ==
    \/ create_pdu_session(w) \/ create_pdu_session_policy(w)
    \/ create_pdu_session_create(w) \/ create_pdu_session_log(w)

SmfEstablish(w) ==
    \/ establish_session(w)
    \/ establish_session_ue(w) \/ establish_session_policy(w) \/ establish_session_upf(w)
    \/ establish_session_create(w) \/ establish_session_upfstate(w)
    \/ establish_session_log(w)

Upf(w) ==
    \/ simulate_traffic(w)
    \/ simulate_traffic_find(w) \/ simulate_traffic_session(w)
    \/ simulate_traffic_upf(w) \/ simulate_traffic_log(w)

\* the seven mutating operations of the external interface
Public(w) ==
    \/ Nrf(w) \/ Pcf(w) \/ AmfRegisterUe(w) \/ AmfFlow(w)
    \/ SmfCreate(w) \/ SmfEstablish(w) \/ Upf(w)

\* every handler
Handler(w) == Public(w) \/ Nssf(w) \/ Udm(w)

\* The whole system: every handler, on every thread of the pool.
Next == (\E w \in Workers : Handler(w)) \/ Tick
Spec == Init /\ [][Next]_vars

\* The public operations, served one after another by a single thread.
NextSeq == Public("w1") \/ Tick
SpecSeq == Init /\ [][NextSeq]_vars

\* The session side, one call at a time: policies, the NF registry the SMF
\* resolves the UPF from, both ways of creating a session, and traffic.
NextSmf ==
    \/ Pcf("w1") \/ Nrf("w1") \/ SmfCreate("w1") \/ SmfEstablish("w1") \/ Upf("w1")
    \/ Tick
SpecSmf == Init /\ [][NextSmf]_vars

\* The UE side, one call at a time: both ways of registering a UE, and the
\* session establishment that reads the registration.
NextUe == AmfRegisterUe("w1") \/ AmfFlow("w1") \/ SmfEstablish("w1") \/ Tick
SpecUe == Init /\ [][NextUe]_vars

\* NF registration, one call at a time.
NextNrfSeq == Nrf("w1")
SpecNrfSeq == Init /\ [][NextNrfSeq]_vars

\* NF registration on the whole thread pool.
NextNrf == \E w \in Workers : Nrf(w)
SpecNrf == Init /\ [][NextNrf]_vars

\* UE registration (both entry points) on the whole thread pool.
NextAmf == \E w \in Workers : AmfRegisterUe(w) \/ AmfFlow(w)
SpecAmf == Init /\ [][NextAmf]_vars

\* The registration flow alone, on the whole thread pool.
NextFlow == \E w \in Workers : AmfFlow(w)
SpecFlow == Init /\ [][NextFlow]_vars

\* Sessions created by establishSession only, and traffic on them, on the
\* whole thread pool, with the NF registry the UPF is resolved from.
NextTraffic == (\E w \in Workers : SmfEstablish(w) \/ Upf(w)) \/ Nrf("w1") \/ Tick
SpecTraffic == Init /\ [][NextTraffic]_vars

\* Slice selection and authentication, alone and inside the registration flow,
\* and registerUE, one call at a time.
NextNssf == Nssf("w1") \/ Udm("w1") \/ AmfRegisterUe("w1") \/ AmfFlow("w1")
SpecNssf == Init /\ [][NextNssf]_vars

\* ------------------------------------------------------------------------
\* Properties
\* ------------------------------------------------------------------------
\* thread w takes the step at `label`
Takes(w, label) == pc[w] = label /\ pc'[w] # label

\* thread w has answered a request for `handler`
Answered(w, handler) == op[w] = handler /\ pc[w] = "idle" /\ ret[w] # Nil

\* the positions of the documents of a collection that match a filter
Docs(coll, filter) == {i \in 1..Len(coll) : Matches(coll[i], filter)}

\* a UE record of supi with registered=true exists
HasRegisteredUE(supi) == Docs(ue, [supi |-> supi, registered |-> TRUE]) # {}

\* C1: establishSession for a supi that has no UE record with registered=true
\* fails with UENotRegistered at its first store operation, and that step ends
\* the call with the pdusession and upfstate collections as they were (a call
\* without a supi ends the same way, with "supi required").
C1_RegistrationPrecondition ==
    [][\A w \in Workers :
          (Takes(w, "es_ue") /\ ~HasRegisteredUE(arg[w].supi))
          => /\ pc'[w] = "idle"
             /\ ret'[w] = IF arg[w].supi = Missing THEN SupiRequired ELSE UENotRegistered
             /\ pdusession' = pdusession
             /\ upfstate' = upfstate]_vars

\* C1 witness: establishSession was answered UENotRegistered for a supi whose
\* only UE record has registered=false, and no session was stored.
C1_Witness ==
    \E w \in Workers :
        /\ Answered(w, "establish_session")
        /\ ret[w] = UENotRegistered
        /\ Docs(ue, [supi |-> arg[w].supi]) # {}
        /\ ~HasRegisteredUE(arg[w].supi)
        /\ Docs(pdusession, [supi |-> arg[w].supi]) = {}

\* C2: every stored PDUSession belongs to a supi that has a UE record with
\* registered=true.
C2_SessionsOnlyForRegisteredUE ==
    \A i \in 1..Len(pdusession) : HasRegisteredUE(pdusession[i].supi)

\* the steps of the registration flow that come before its UE update
FlowBeforeUpdate ==
    {"rf_find", "rf_create", "rf_auth", "rf_auth_log", "rf_select", "rf_select_log"}

\* no UE record that exists changes its registered field, and a record that
\* appears has registered=false
RegisteredUntouched ==
    /\ Len(ue') >= Len(ue)
    /\ \A i \in 1..Len(ue') :
          ue'[i].registered = (IF i <= Len(ue) THEN ue[i].registered ELSE FALSE)

\* C3 as stated: after a registration flow that failed with NoSliceAvailable the
\* UE record of its supi has registered=false.
C3_FailedFlowLeavesUnregistered ==
    \A w \in Workers :
        (Answered(w, "ue_registration_flow") /\ ret[w] = NoSliceAvailable)
        => ~HasRegisteredUE(arg[w].supi)

\* C3 amended: with zero slices the slice lookup (of selectSlice and of the
\* registration flow) fails with NoSliceAvailable; the flow fails there only
\* after its authentication was logged, and no step of the flow before its UE
\* update changes a registered field (a record the flow creates has
\* registered=false), so a failed flow leaves registered as it was.
C3_NoSliceFailure ==
    [][\A w \in Workers :
          /\ (slice = <<>> /\ (Takes(w, "ss_find") \/ Takes(w, "rf_select")))
             => (pc'[w] = "idle" /\ ret'[w] = NoSliceAvailable)
          /\ (Takes(w, "rf_select") /\ ret'[w] = NoSliceAvailable)
             => (ue' = ue /\ \E k \in 1..Len(logentry) : logentry[k] = AuthLog(arg[w].supi))
          /\ (\E l \in FlowBeforeUpdate : Takes(w, l)) => RegisteredUntouched]_vars

\* C3 witness: with zero slices a flow failed with NoSliceAvailable and the UE
\* record it created is stored with registered=false.
C3_Witness ==
    \E w \in Workers :
        /\ slice = <<>>
        /\ Answered(w, "ue_registration_flow")
        /\ ret[w] = NoSliceAvailable
        /\ Docs(ue, [supi |-> arg[w].supi]) # {}
        /\ ~HasRegisteredUE(arg[w].supi)

\* C4: no step changes the qos_rules of a stored PDUSession (and no session is
\* removed), whatever setPolicy, simulateTraffic or establishSession do later.
C4_SessionSnapshotImmutable ==
    [][/\ Len(pdusession') >= Len(pdusession)
       /\ \A i \in 1..Len(pdusession) :
             pdusession'[i].qos_rules = pdusession[i].qos_rules]_vars

\* C4 witness: a session established by the SMF (requested slice "9") keeps
\* the GoldQos it copied although the first PolicyRule now carries DefaultQos.
C4_Witness ==
    /\ \E i \in 1..Len(pdusession) :
          /\ pdusession[i].smf_id = "smf-1"
          /\ pdusession[i].s_nssai = "9"
          /\ pdusession[i].qos_rules = GoldQos
    /\ policyrule # <<>>
    /\ policyrule[1].qos = DefaultQos
    /\ \E w \in Workers : Answered(w, "set_policy")

\* the aggregate counters of a UPF: its UPFState, zero when there is none yet
UpfCounters(coll, upf_id) ==
    LET u == FindOne(coll, [upf_id |-> upf_id])
    IN  IF u = 0 THEN [ul |-> 0, dl |-> 0]
        ELSE [ul |-> coll[u].ul_bytes, dl |-> coll[u].dl_bytes]

\* C5: a successful simulateTraffic(session_id, ul, dl) adds ul and dl to the
\* byte counters of the session it found and of no other session, and adds the
\* same ul and dl to the aggregate counters of that session's upf_id; when the
\* two updates are done the session stands at what the call found plus ul, dl.
C5_TrafficAggregation ==
    [][\A w \in Workers :
          /\ Takes(w, "st_session")
             => LET s == FindOne(pdusession, [session_id |-> arg[w].session_id])
                IN  /\ s # 0
                    /\ pdusession'[s].ul_bytes = pdusession[s].ul_bytes + arg[w].ul
                    /\ pdusession'[s].dl_bytes = pdusession[s].dl_bytes + arg[w].dl
                    /\ \A i \in 1..Len(pdusession) : i # s => pdusession'[i] = pdusession[i]
          /\ Takes(w, "st_upf")
             => LET U == loc[w].sess.upf_id
                IN  /\ UpfCounters(upfstate', U).ul = UpfCounters(upfstate, U).ul + arg[w].ul
                    /\ UpfCounters(upfstate', U).dl = UpfCounters(upfstate, U).dl + arg[w].dl
                    /\ pdusession' = pdusession
          /\ Takes(w, "st_log")
             => LET s == FindOne(pdusession, [session_id |-> arg[w].session_id])
                IN  /\ pdusession[s].ul_bytes = loc[w].sess.ul_bytes + arg[w].ul
                    /\ pdusession[s].dl_bytes = loc[w].sess.dl_bytes + arg[w].dl
                    /\ ret'[w] = Response([status |-> "ok"])]_vars

\* C5 witness: after two calls with ul=500, dl=700 the session stands at 1000
\* and 1400, and so does the UPFState of its upf_id.
C5_Witness ==
    \E i \in 1..Len(pdusession) :
        /\ pdusession[i].ul_bytes = 1000
        /\ pdusession[i].dl_bytes = 1400
        /\ UpfCounters(upfstate, pdusession[i].upf_id) = [ul |-> 1000, dl |-> 1400]
        /\ \E w \in Workers :
              /\ Answered(w, "simulate_traffic")
              /\ arg[w] = [session_id |-> pdusession[i].session_id, ul |-> 500, dl |-> 700]

\* C6: served one after another, a register(service) call answers "registered"
\* if no record of its nf_id was stored and "updated" otherwise, and leaves
\* exactly one record of that nf_id, equal to the service of the call.
C6_NrfRegisterIdempotent ==
    [][\A w \in Workers :
          Takes(w, "nrf_write")
          => LET had == Docs(nfservice, [nf_id |-> arg[w].nf_id])
                 has == Docs(nfservice', [nf_id |-> arg[w].nf_id])
             IN  /\ ret'[w] = Response([status |-> IF had = {} THEN "registered"
                                                   ELSE "updated"])
                 /\ Cardinality(has) = 1
                 /\ \A i \in has : nfservice'[i] = arg[w]]_vars

\* C6 witness: a second registration of an nf_id was answered "updated", and
\* the one record of that nf_id carries the nf_type of that second call.
C6_Witness ==
    \E w \in Workers :
        /\ Answered(w, "nrf_register")
        /\ ret[w] = Response([status |-> "updated"])
        /\ arg[w].nf_type = "AMF"
        /\ Cardinality(Docs(nfservice, [nf_id |-> arg[w].nf_id])) = 1
        /\ \A i \in 1..Len(nfservice) : nfservice[i].nf_id = arg[w].nf_id
                                        => nfservice[i] = arg[w]

\* C7: the nfservice collection holds at most one record per nf_id.
C7_AtMostOneRecordPerNfId ==
    \A id \in NFID : Cardinality(Docs(nfservice, [nf_id |-> id])) <= 1

\* C8: no two PDUSession records have the same session_id.
C8_SessionIdUnique ==
    \A i, j \in 1..Len(pdusession) :
        pdusession[i].session_id = pdusession[j].session_id => i = j

\* C9: the ue collection holds at most one record per supi.
C9_SupiUnique ==
    \A s \in SUPI : Cardinality(Docs(ue, [supi |-> s])) <= 1

\* the slice_ids of the slices whose plmns contain plmn, and of all slices
MatchingSliceIds(plmn) ==
    {slice[i].slice_id : i \in {j \in 1..Len(slice) : plmn \in slice[j].plmns}}
AllSliceIds == {slice[i].slice_id : i \in 1..Len(slice)}

\* C10: selectSlice(supi, plmn) answers NoSliceAvailable exactly when no slice
\* is configured; otherwise it answers the slice_id of a slice whose plmns
\* contain plmn if there is one, and of some configured slice if there is none.
C10_SliceSelection ==
    \A w \in Workers :
        Answered(w, "select_slice")
        => IF slice = <<>>
           THEN ret[w] = NoSliceAvailable
           ELSE /\ ret[w].code = 200
                /\ ret[w].body.slice_id \in
                      (IF MatchingSliceIds(arg[w].plmn) # {}
                       THEN MatchingSliceIds(arg[w].plmn) ELSE AllSliceIds)

\* C10 witness: no slice allows the PLMN asked for (the configured ones allow
\* others), and selectSlice answered with the first configured slice.
C10_Witness ==
    \E w \in Workers :
        /\ Answered(w, "select_slice")
        /\ slice # <<>>
        /\ MatchingSliceIds(arg[w].plmn) = {}
        /\ ret[w] = Response([slice_id |-> slice[1].slice_id])

\* C11: a runRegistrationFlow(supi, plmn) that succeeded answered result OK with
\* the slice_id the slice lookup gives for plmn, and the UE record of supi has
\* registered=true, slices = [that slice_id] and amf_id = "amf-1".
C11_FlowResult ==
    \A w \in Workers :
        (Answered(w, "ue_registration_flow") /\ ret[w].code = 200)
        => LET u == FindOne(ue, [supi |-> arg[w].supi])
               chosen == slice[SliceFor(arg[w].plmn)].slice_id
           IN  /\ ret[w] = Response([result |-> "OK", slice |-> chosen])
               /\ u # 0
               /\ ue[u].registered
               /\ ue[u].slices = <<chosen>>
               /\ ue[u].amf_id = "amf-1"

\* C11 witness: a flow for a PLMN that slice "1" allows, the second of two
\* configured slices, succeeded with slice "1" and the UE record carries it.
C11_Witness ==
    \E w \in Workers :
        /\ Answered(w, "ue_registration_flow")
        /\ Len(slice) = 2
        /\ ret[w] = Response([result |-> "OK", slice |-> "1"])
        /\ \E i \in 1..Len(ue) :
              /\ ue[i].supi = arg[w].supi
              /\ ue[i].registered
              /\ ue[i].slices = <<"1">>
              /\ ue[i].amf_id = "amf-1"

\* C12: when establishSession(supi) has succeeded, the session it stored has
\* s_nssai = the requested slice if one was given, else the first slice granted
\* to the UE, else "default"; with no NFService of type UPF its upf_id (and the
\* upf answered) is "upf-1"; with no PolicyRule its qos (and the qos answered)
\* is the hard default, 5qi = 9.
C12_EndToEndSession ==
    \A w \in Workers :
        (Answered(w, "establish_session") /\ ret[w].code = 200)
        => LET s == pdusession[Len(pdusession)]
               u == ue[FindOne(ue, [supi |-> arg[w].supi])]
           IN  /\ s.supi = arg[w].supi
               /\ s.session_id = ret[w].body.session_id
               /\ s.s_nssai = (IF arg[w].slice # None THEN arg[w].slice
                               ELSE IF Len(u.slices) > 0 THEN u.slices[1]
                               ELSE "default")
               /\ Docs(nfservice, [nf_type |-> "UPF"]) = {}
                  => (s.upf_id = "upf-1" /\ ret[w].body.upf = "upf-1")
               /\ policyrule = <<>>
                  => (s.qos_rules.qi = 9 /\ ret[w].body.qos = s.qos_rules)

\* C12 witness: on a store that was empty but for one slice, the registration
\* flow ran for a PLMN the slice allows and establishSession without a slice
\* followed: the session has s_nssai "1", upf_id "upf-1" and 5qi 9.
C12_Witness ==
    \E w \in Workers :
        /\ Answered(w, "establish_session")
        /\ arg[w].slice = None
        /\ Len(slice) = 1
        /\ policyrule = <<>>
        /\ nfservice = <<>>
        /\ Len(logentry) = 4
        /\ logentry[1] = AuthLog(arg[w].supi)
        /\ logentry[3] = LogEntry("AMF", "UE registration flow complete",
                                  [supi |-> arg[w].supi, slice |-> "1"])
        /\ Len(ue) = 1
        /\ ue[1].plmn \in slice[1].plmns
        /\ Len(pdusession) = 1
        /\ pdusession[1].s_nssai = "1"
        /\ pdusession[1].upf_id = "upf-1"
        /\ pdusession[1].qos_rules = HardDefaultQos

\* the nf_ids of the NFService records of type UPF
UpfIds == {nfservice[i].nf_id : i \in Docs(nfservice, [nf_type |-> "UPF"])}

\* C13: whichever operation inserts a PDUSession (establishSession or
\* createSession), the upf_id of the inserted record is the nf_id of an
\* NFService record of type UPF if there is one at that moment, and "upf-1"
\* if there is none.
C13_UpfResolvedAtCreation ==
    [][\A w \in Workers :
          (Takes(w, "es_create") \/ Takes(w, "cs_create"))
          => /\ Len(pdusession') = Len(pdusession) + 1
             /\ LET created == pdusession'[Len(pdusession')]
                IN  IF UpfIds # {} THEN created.upf_id \in UpfIds
                    ELSE created.upf_id = "upf-1"]_vars

\* C14 as stated: every step that adds a UE record adds it with
\* registered=false, and only the final update of the registration flow makes
\* a registered field true.
C14_CreatedUnregistered ==
    [][/\ Len(ue') > Len(ue) => ~ue'[Len(ue')].registered
       /\ ~RegisteredUntouched => \E w \in Workers : Takes(w, "rf_update")]_vars

\* C14 amended: a UE record the registration flow creates has registered=false,
\* and the flow makes it true only in its final update, which it reaches only
\* after authentication and slice selection were logged for its supi;
\* registerUE stores the record of its supi, created or updated, with
\* registered=true; no other step touches a registered field.
C14_RegisteredOnlyByFlowEndOrRegisterUE ==
    [][/\ \A w \in Workers :
             /\ Takes(w, "rf_create")
                => /\ Len(ue') = Len(ue) + 1
                   /\ ue'[Len(ue')] = UE(arg[w].supi, arg[w].plmn, FALSE)
             /\ Takes(w, "rf_update")
                => /\ \E k \in 1..Len(logentry) : logentry[k] = AuthLog(arg[w].supi)
                   /\ \E k \in 1..Len(logentry) :
                         logentry[k] = SliceSelectedLog(arg[w].supi, loc[w].sl.slice_id)
             /\ Takes(w, "ru_write")
                => LET written == IF Len(ue') > Len(ue) THEN Len(ue')
                                      ELSE FindOne(ue', [supi |-> arg[w].supi])
                   IN  ue'[written].supi = arg[w].supi /\ ue'[written].registered
       /\ ~RegisteredUntouched
          => \E w \in Workers : Takes(w, "rf_update") \/ Takes(w, "ru_write")]_vars

\* C14 witness: registerUE for a supi that had no record was answered
\* "registered", and the record it created has registered=true although no
\* registration flow ever completed.
C14_Witness ==
    \E w \in Workers :
        /\ Answered(w, "amf_register_ue")
        /\ ret[w] = Response([status |-> "registered"])
        /\ HasRegisteredUE(arg[w].supi)
        /\ \A k \in 1..Len(logentry) : logentry[k].message # "UE registration flow complete"

\* the last record of the log, Nil when the log is empty
LastLog == IF logentry = <<>> THEN Nil ELSE logentry[Len(logentry)]

\* C15: every run of the registration flow takes its steps in order.  The
\* authentication lookup comes first and its 'UE authenticated' record is
\* appended before the slice lookup starts; the 'Slice selected' record is
\* appended right after it, before the UE update; none of these steps writes
\* the UE; the UE update is reached from the slice log only, and a run that
\* fails in authentication or slice selection ends there, the ue collection
\* as it was.
C15_FlowStepOrder ==
    [][\A w \in Workers :
          /\ Takes(w, "rf_auth")
             => /\ pc'[w] \in {"rf_auth_log", "idle"}
                /\ pc'[w] = "idle" => ret'[w] = NotFoundUE
                /\ UNCHANGED <<ue, logentry>>
          /\ Takes(w, "rf_auth_log")
             => /\ pc'[w] = "rf_select"
                /\ logentry' = Append(logentry, AuthLog(arg[w].supi))
                /\ ue' = ue
          /\ Takes(w, "rf_select")
             => /\ LastLog = AuthLog(arg[w].supi)
                /\ pc'[w] \in {"rf_select_log", "idle"}
                /\ pc'[w] = "idle" => ret'[w] = NoSliceAvailable
                /\ UNCHANGED <<ue, logentry>>
          /\ Takes(w, "rf_select_log")
             => /\ pc'[w] = "rf_update"
                /\ LastLog = AuthLog(arg[w].supi)
                /\ logentry' = Append(logentry,
                                      SliceSelectedLog(arg[w].supi, loc[w].sl.slice_id))
                /\ ue' = ue
          /\ Takes(w, "rf_update")
             => /\ Len(logentry) >= 2
                /\ logentry[Len(logentry) - 1] = AuthLog(arg[w].supi)
                /\ LastLog = SliceSelectedLog(arg[w].supi, loc[w].sl.slice_id)
                /\ ue'[FindOne(ue', [supi |-> arg[w].supi])].registered
          /\ (pc'[w] = "rf_update" /\ pc[w] # "rf_update") => pc[w] = "rf_select_log"
          /\ (pc'[w] = "rf_select_log" /\ pc[w] # "rf_select_log") => pc[w] = "rf_select"
          /\ (pc'[w] = "rf_select" /\ pc[w] # "rf_select") => pc[w] = "rf_auth_log"
          /\ (pc'[w] = "rf_auth_log" /\ pc[w] # "rf_auth_log") => pc[w] = "rf_auth"]_vars

\* C15 witness: on an empty store a flow succeeded, and the log holds, in this
\* order, 'UE authenticated', 'Slice selected' and then the record of the
\* completed flow, the UE now being registered.
C15_Witness ==
    \E w \in Workers :
        /\ Answered(w, "ue_registration_flow")
        /\ ret[w].code = 200
        /\ Len(logentry) = 3
        /\ logentry[1] = AuthLog(arg[w].supi)
        /\ logentry[2] = SliceSelectedLog(arg[w].supi, ret[w].body.slice)
        /\ logentry[3].message = "UE registration flow complete"
        /\ HasRegisteredUE(arg[w].supi)

\* the operations C16 names
MutatingOps ==
    {"nrf_register", "set_policy", "amf_register_ue", "create_pdu_session",
     "establish_session", "simulate_traffic"}

\* C16: a call of register NF, setPolicy, registerUE, createSession,
\* establishSession or simulateTraffic that succeeds appends one LogEntry: the
\* step that answers the call (the handlers log last, just before they return)
\* makes the logentry collection one record longer.
C16_MutationsAreLogged ==
    [][\A w \in Workers :
          (/\ op[w] \in MutatingOps
           /\ pc[w] # "idle"
           /\ pc'[w] = "idle"
           /\ ret'[w].code = 200)
          => Len(logentry') = Len(logentry) + 1]_vars

\* C17: with no PolicyRule stored, the session establishSession or
\* createSession inserts has the hard default qos, 5qi = 9, establishSession
\* answers that qos, and the policyrule collection stays empty; no step other
\* than setPolicy's write ever changes the policyrule collection.
C17_DefaultQosNotPersisted ==
    [][/\ policyrule' # policyrule => \E w \in Workers : Takes(w, "pol_write")
       /\ \A w \in Workers :
             /\ (policyrule = <<>> /\ (Takes(w, "es_create") \/ Takes(w, "cs_create")))
                => /\ Len(pdusession') = Len(pdusession) + 1
                   /\ pdusession'[Len(pdusession')].qos_rules = HardDefaultQos
                   /\ policyrule' = <<>>
             /\ (policyrule = <<>> /\ Takes(w, "es_log"))
                => /\ ret'[w].body.qos = HardDefaultQos
                   /\ policyrule' = <<>>]_vars

\* C17 witness: establishSession succeeded with the hard default qos for a
\* registered UE, and there is still no PolicyRule.
C17_Witness ==
    \E w \in Workers :
        /\ Answered(w, "establish_session")
        /\ ret[w].code = 200
        /\ ret[w].body.qos = HardDefaultQos
        /\ pdusession[Len(pdusession)].qos_rules = HardDefaultQos
        /\ pdusession[Len(pdusession)].session_id = ret[w].body.session_id
        /\ policyrule = <<>>

\* C18: when both threads have answered a successful registration flow for the
\* same supi, whatever the interleaving of their steps, every UE record of that
\* supi has registered=true, amf_id "amf-1" and for slices the one-element list
\* of the slice one of the two flows selected (the one that wrote last), never
\* the values of neither.
C18_LastWriterWins ==
    \A s \in SUPI :
        (\A w \in Workers :
            /\ Answered(w, "ue_registration_flow")
            /\ ret[w].code = 200
            /\ arg[w].supi = s)
        => \A i \in Docs(ue, [supi |-> s]) :
              /\ ue[i].registered
              /\ ue[i].amf_id = "amf-1"
              /\ \E w \in Workers : ue[i].slices = <<ret[w].body.slice>>

\* the sum of a byte counter over the first n sessions served by upf_id
RECURSIVE SessionBytes(_, _, _)
SessionBytes(n, upf_id, counter) ==
    IF n = 0 THEN 0
    ELSE (IF pdusession[n].upf_id = upf_id THEN pdusession[n][counter] ELSE 0)
         + SessionBytes(n - 1, upf_id, counter)

\* C19: sessions being created by establishSession only, in every state in
\* which no simulateTraffic call stands between its session update and its
\* UPFState update, the ul_bytes and dl_bytes of every UPFState equal the sums
\* of ul_bytes and dl_bytes over the PDUSession records with that upf_id; so a
\* further establishSession on a UPF that has counters leaves them as they are.
C19_UpfAggregateIsSum ==
    (\A w \in Workers : pc[w] # "st_upf")
    => \A k \in 1..Len(upfstate) :
          /\ upfstate[k].ul_bytes =
                SessionBytes(Len(pdusession), upfstate[k].upf_id, "ul_bytes")
          /\ upfstate[k].dl_bytes =
                SessionBytes(Len(pdusession), upfstate[k].upf_id, "dl_bytes")

\* C19 witness: a UPF carried traffic, a further session was then established
\* on it, and its counters still stand at the traffic of the first session.
C19_Witness ==
    \E w \in Workers :
        /\ Answered(w, "establish_session")
        /\ ret[w].code = 200
        /\ Len(pdusession) = 2
        /\ pdusession[1].upf_id = ret[w].body.upf
        /\ pdusession[1].ul_bytes = 500
        /\ pdusession[2].ul_bytes = 0
        /\ UpfCounters(upfstate, ret[w].body.upf) = [ul |-> 500, dl |-> 700]

\* C20: no step removes a UE record or changes its supi, and no step takes a
\* record from registered=true to registered=false, whatever registerUE is
\* sent and however the registration flow ends; and the authentication lookup
\* of a flow always finds the UE the flow ensured, so it never answers
\* NotFoundUE.
C20_RegistrationMonotonic ==
    [][/\ Len(ue') >= Len(ue)
       /\ \A i \in 1..Len(ue) :
             /\ ue'[i].supi = ue[i].supi
             /\ ue[i].registered => ue'[i].registered
       /\ \A w \in Workers :
             Takes(w, "rf_auth") => (pc'[w] = "rf_auth_log" /\ ret'[w] # NotFoundUE)]_vars

\* C20 witness: for a registered UE, a registration flow failed for want of a
\* slice and registerUE was sent a body with registered=false and answered
\* "updated"; the UE record still has registered=true.
C20_Witness ==
    \E w, v \in Workers :
        /\ Answered(w, "amf_register_ue")
        /\ ret[w] = Response([status |-> "updated"])
        /\ ~arg[w].registered
        /\ Answered(v, "ue_registration_flow")
        /\ ret[v] = NoSliceAvailable
        /\ arg[v].supi = arg[w].supi
        /\ \A i \in Docs(ue, [supi |-> arg[w].supi]) : ue[i].registered

====
